---- MODULE Spec2Model ----
(***************************************************************************)
(* VirtIOInput (virtio-drivers/src/device/input/mod.rs): construction,     *)
(* event polling and teardown of the virtio input driver, together with    *)
(* the device as an asynchronous producer of completions.                  *)
(*                                                                         *)
(* The driver is modelled one fallible operation per step.  The transport  *)
(* (a trait) and the virtqueue (crate::queue) are collaborators: every     *)
(* fallible call of theirs either succeeds or returns an error, chosen     *)
(* nondeterministically.                                                   *)
(***************************************************************************)
EXTENDS Integers, Sequences, FiniteSets

\* ---------------------------------------------------------------- bounds
\* The ring size.  The source fixes it at 32 ("a parameter that can
\* change"); the model checks a small ring.
QUEUE_SIZE == 3
\* The device completes at most this many slots in one behaviour.
MaxCompletions == 3
\* The width of the config data block (InputConfig::data; the source's block
\* is wider, the model checks a small one).
DataWidth == 2

\* ------------------------------------------------------------- constants
QUEUE_EVENT == 0
QUEUE_STATUS == 1

Slots == 0 .. (QUEUE_SIZE - 1)

VARIABLES
    pc,            \* position of the driver's caller / current operation
    trace,         \* calls observed by the transport and, while priming, the ring
    registered,    \* registered[q]: queue q is registered with the transport
    driver_ok,     \* finish_init succeeded: a VirtIOInput instance exists(ed)
    buf,           \* event_buf allocation: "unalloc" | "live" | "freed"
    event_buf,     \* event_buf[i]: contents of slot i
    event_queue,   \* the event virtqueue: [free, avail, used]
    i,             \* priming loop index
    token,         \* pop_pending_event: the peeked token
    event_saved,   \* pop_pending_event: the copied record
    last_ret,      \* result of the last pop_pending_event call
    poll_failed,   \* some pop_pending_event call returned Err
    completedLog,  \* <<slot, value>> of every device completion, in order
    returnedLog,   \* <<slot, value>> of every record returned, in order
    retired,       \* retired[t]: successful pop_used(t) calls
    resubmitted,   \* resubmitted[t]: successful re-submissions of slot t
    call_ops,      \* calls made by the current (or last) pop_pending_event
    q_args,        \* query_config_select: [select, subsel]
    out,           \* query_config_select: the caller's out buffer
    size,          \* query_config_select: the size read back
    data,          \* query_config_select: the data block read back
    io_region,     \* the device's config registers: [select, subsel, size, data]
    q_log,         \* register accesses of the current (or last) query
    q_ret          \* result of the last query_config_select call

vars == <<pc, trace, registered, driver_ok, buf, event_buf, event_queue, i,
          token, event_saved, last_ret, poll_failed, completedLog,
          returnedLog, retired, resubmitted, call_ops,
          q_args, out, size, data, io_region, q_log, q_ret>>

qvars == <<q_args, out, size, data, io_region, q_log, q_ret>>
drvLocals == <<i, token, event_saved>>
ghosts == <<last_ret, poll_failed, completedLog, returnedLog, retired, resubmitted,
            call_ops>>

\* ------------------------------------------------------------ the ring
\* VirtIoQueue::new: all descriptors free, in index order.
QueueNew == [free |-> [k \in 1 .. QUEUE_SIZE |-> k - 1], avail |-> {}, used |-> <<>>]

\* VirtIoQueue::add with one descriptor: takes the head of the free list.
QueueAdd(q) ==
    IF q.free = <<>>
    THEN [ok |-> FALSE, token |-> 0, q |-> q]
    ELSE [ok |-> TRUE, token |-> Head(q.free),
          q |-> [q EXCEPT !.free = Tail(@), !.avail = @ \cup {Head(q.free)}]]

\* VirtIoQueue::peek_used: the oldest completion not yet retired, if any.
QueuePeekUsed(q) ==
    IF q.used = <<>> THEN [some |-> FALSE, token |-> 0]
    ELSE [some |-> TRUE, token |-> Head(q.used)]

\* VirtIoQueue::pop_used(token): retires the oldest completion, which must be
\* `token`, and puts its descriptor back at the head of the free list.
QueuePopUsed(q, t) ==
    IF q.used = <<>> \/ Head(q.used) # t
    THEN [ok |-> FALSE, q |-> q]
    ELSE [ok |-> TRUE, q |-> [q EXCEPT !.used = Tail(@), !.free = <<t>> \o @]]

\* Slots the device holds or has completed and the driver has not retired.
Posted(q) == Cardinality(q.avail) + Len(q.used)

\* ------------------------------------------------------------- helpers
Call(op, arg, ok) == <<op, arg, ok>>

\* Locals of `new` are dropped on an error return: event_buf is released.
ReleaseBuf(b) == IF b = "live" THEN "freed" ELSE b

\* No query_config_select call has been made; the device's config registers
\* hold nothing.
NoQuery ==
    /\ q_args = [select |-> 0, subsel |-> 0]
    /\ out = <<>>
    /\ size = 0
    /\ data = <<>>
    /\ io_region = [select |-> 0, subsel |-> 0, size |-> 0, data |-> <<>>]
    /\ q_log = <<>>
    /\ q_ret = [kind |-> "NotCalled", val |-> 0]

Init ==
    /\ pc = "new_begin"
    /\ trace = <<>>
    /\ registered = [q \in {QUEUE_EVENT, QUEUE_STATUS} |-> FALSE]
    /\ driver_ok = FALSE
    /\ buf = "unalloc"
    /\ event_buf = [s \in Slots |-> 0]
    /\ event_queue = [free |-> <<>>, avail |-> {}, used |-> <<>>]
    /\ i = 0
    /\ token = 0
    /\ event_saved = 0
    /\ last_ret = [kind |-> "NotCalled", val |-> 0]
    /\ poll_failed = FALSE
    /\ completedLog = <<>>
    /\ returnedLog = <<>>
    /\ retired = [s \in Slots |-> 0]
    /\ resubmitted = [s \in Slots |-> 0]
    /\ call_ops = <<>>
    /\ NoQuery

\* ------------------------------------------------------ VirtIOInput::new
\* transport.begin_init(SUPPORTED_FEATURES)?; then event_buf is allocated.
NewBeginInit ==
    /\ pc = "new_begin"
    /\ \E ok \in BOOLEAN :
        /\ trace' = Append(trace, Call("begin_init", 0, ok))
        /\ pc' = IF ok THEN "new_queue_event" ELSE "new_err"
        /\ buf' = IF ok THEN "live" ELSE buf
    /\ UNCHANGED <<registered, driver_ok, event_buf, event_queue, drvLocals, ghosts, qvars>>

\* VirtIoQueue::new(&mut transport, QUEUE_EVENT)?
NewQueueEvent ==
    /\ pc = "new_queue_event"
    /\ \E ok \in BOOLEAN :
        /\ trace' = Append(trace, Call("queue_set", QUEUE_EVENT, ok))
        /\ pc' = IF ok THEN "new_queue_status" ELSE "new_err"
        /\ registered' = IF ok THEN [registered EXCEPT ![QUEUE_EVENT] = TRUE] ELSE registered
        /\ event_queue' = IF ok THEN QueueNew ELSE event_queue
        /\ buf' = IF ok THEN buf ELSE ReleaseBuf(buf)
    /\ UNCHANGED <<driver_ok, event_buf, drvLocals, ghosts, qvars>>

\* The copy-paste slip: the status queue is created on QUEUE_EVENT again.
NewQueueStatusSameIndex ==
    /\ pc = "new_queue_status"
    /\ \E ok \in BOOLEAN :
        /\ trace' = Append(trace, Call("queue_set", QUEUE_EVENT, ok))
        /\ pc' = IF ok THEN "new_prime" ELSE "new_err"
        /\ registered' = IF ok THEN [registered EXCEPT ![QUEUE_EVENT] = TRUE] ELSE registered
        /\ buf' = IF ok THEN buf ELSE ReleaseBuf(buf)
    /\ UNCHANGED <<driver_ok, event_buf, event_queue, drvLocals, ghosts, qvars>>

\* VirtIoQueue::new(&mut transport, QUEUE_STATUS)?
NewQueueStatus ==
    /\ pc = "new_queue_status"
    /\ \E ok \in BOOLEAN :
        /\ trace' = Append(trace, Call("queue_set", QUEUE_STATUS, ok))
        /\ pc' = IF ok THEN "new_prime" ELSE "new_err"
        /\ registered' = IF ok THEN [registered EXCEPT ![QUEUE_STATUS] = TRUE] ELSE registered
        /\ buf' = IF ok THEN buf ELSE ReleaseBuf(buf)
    /\ UNCHANGED <<driver_ok, event_buf, event_queue, drvLocals, ghosts, qvars>>

\* One iteration of the priming loop: event_queue.add(..)?; assert_eq!(token, i).
NewPrimeAdd ==
    /\ pc = "new_prime"
    /\ i < QUEUE_SIZE
    /\ \E fail \in BOOLEAN :
        LET r == IF fail THEN [ok |-> FALSE, token |-> 0, q |-> event_queue]
                 ELSE QueueAdd(event_queue)
        IN  /\ trace' = Append(trace, Call("add", i, r.ok))
            /\ event_queue' = r.q
            /\ IF ~r.ok
               THEN /\ pc' = "new_err"
                    /\ buf' = ReleaseBuf(buf)
                    /\ i' = i
               ELSE IF r.token # i
               THEN /\ pc' = "assert_failed"
                    /\ UNCHANGED <<buf, i>>
               ELSE /\ i' = i + 1
                    /\ pc' = IF i + 1 = QUEUE_SIZE THEN "new_notify" ELSE "new_prime"
                    /\ buf' = buf
    /\ UNCHANGED <<registered, driver_ok, event_buf, token, event_saved, ghosts, qvars>>

\* The slip of notifying whatever should_notify says.
NewNotifyAlways ==
    /\ pc = "new_notify"
    /\ \E sn \in BOOLEAN, ok \in BOOLEAN :
        /\ trace' = trace \o <<Call("should_notify", QUEUE_EVENT, sn),
                               Call("notify", QUEUE_EVENT, ok)>>
        /\ pc' = IF ok THEN "new_finish" ELSE "new_err"
        /\ buf' = IF ok THEN buf ELSE ReleaseBuf(buf)
    /\ UNCHANGED <<registered, driver_ok, event_buf, event_queue, drvLocals, ghosts, qvars>>

\* The slip of dropping the `?` on the priming notification.
NewNotifyIgnoreErr ==
    /\ pc = "new_notify"
    /\ \E sn \in BOOLEAN, ok \in BOOLEAN :
        /\ trace' = IF sn
                    THEN trace \o <<Call("should_notify", QUEUE_EVENT, TRUE),
                                    Call("notify", QUEUE_EVENT, ok)>>
                    ELSE Append(trace, Call("should_notify", QUEUE_EVENT, FALSE))
        /\ pc' = "new_finish"
    /\ UNCHANGED <<registered, driver_ok, buf, event_buf, event_queue, drvLocals, ghosts, qvars>>

\* if event_queue.should_notify() { transport.notify(QUEUE_EVENT)?; }
NewNotify ==
    /\ pc = "new_notify"
    /\ \E sn \in BOOLEAN, ok \in BOOLEAN :
        /\ trace' = IF sn
                    THEN trace \o <<Call("should_notify", QUEUE_EVENT, TRUE),
                                    Call("notify", QUEUE_EVENT, ok)>>
                    ELSE Append(trace, Call("should_notify", QUEUE_EVENT, FALSE))
        /\ pc' = IF sn /\ ~ok THEN "new_err" ELSE "new_finish"
        /\ buf' = IF sn /\ ~ok THEN ReleaseBuf(buf) ELSE buf
    /\ UNCHANGED <<registered, driver_ok, event_buf, event_queue, drvLocals, ghosts, qvars>>

\* transport.finish_init()?; Ok(VirtIOInput { .. })
NewFinishInit ==
    /\ pc = "new_finish"
    /\ \E ok \in BOOLEAN :
        /\ trace' = Append(trace, Call("finish_init", 0, ok))
        /\ pc' = IF ok THEN "idle" ELSE "new_err"
        /\ driver_ok' = ok
        /\ buf' = IF ok THEN buf ELSE ReleaseBuf(buf)
    /\ UNCHANGED <<registered, event_buf, event_queue, drvLocals, ghosts, qvars>>

\* ------------------------------------------------------------ the device
\* The device writes a record into a slot it holds and reports the slot used.
\* It may do so at any time and for any posted slot, whatever the order of
\* submission.  The driver treats a record as opaque, so the k-th record the
\* device writes is given the payload k: every record is told apart from every
\* other and from InputEvent::default(), which is 0.
DeviceComplete ==
    /\ driver_ok
    /\ registered[QUEUE_EVENT]
    /\ buf = "live"
    /\ Len(completedLog) < MaxCompletions
    /\ \E t \in event_queue.avail :
        LET v == Len(completedLog) + 1
        IN  /\ event_buf' = [event_buf EXCEPT ![t] = v]
            /\ event_queue' = [event_queue EXCEPT !.avail = @ \ {t}, !.used = Append(@, t)]
            /\ completedLog' = Append(completedLog, <<t, v>>)
    /\ UNCHANGED <<pc, trace, registered, driver_ok, buf, drvLocals, last_ret,
                   poll_failed, returnedLog, retired, resubmitted, call_ops,
                   qvars>>

\* ---------------------------------------- VirtIOInput::pop_pending_event
RetNone == [kind |-> "None", val |-> 0]
RetErr == [kind |-> "Err", val |-> 0]
RetSome(v) == [kind |-> "Some", val |-> v]

\* A call the current pop_pending_event makes on the ring, the buffer or the
\* transport, with its result.
Op(op, res) == <<op, res>>

\* The error return of pop_pending_event (the `?` operator).
PollErr ==
    /\ pc' = "idle"
    /\ last_ret' = RetErr
    /\ poll_failed' = TRUE
    /\ token' = 0
    /\ event_saved' = 0

\* The slip of returning the peeked slot without retiring and recycling it.
PollPeekNoRetire ==
    /\ pc = "idle"
    /\ LET p == QueuePeekUsed(event_queue)
       IN  /\ call_ops' = << Op("peek_used", p.some) >>
           /\ IF p.some
              THEN /\ last_ret' = RetSome(event_buf[p.token])
                   /\ returnedLog' = Append(returnedLog, <<p.token, event_buf[p.token]>>)
              ELSE /\ last_ret' = RetNone
                   /\ UNCHANGED returnedLog
    /\ UNCHANGED <<pc, trace, registered, driver_ok, buf, event_buf, event_queue,
                   drvLocals, poll_failed, completedLog, retired, resubmitted,
                   qvars>>

\* The slip of kicking the device when nothing is pending.
PollPeekNotifyOnEmpty ==
    /\ pc = "idle"
    /\ LET p == QueuePeekUsed(event_queue)
       IN  IF p.some
           THEN /\ token' = p.token
                /\ pc' = "poll_pop"
                /\ call_ops' = << Op("peek_used", TRUE) >>
                /\ UNCHANGED last_ret
           ELSE /\ last_ret' = RetNone
                /\ call_ops' = << Op("peek_used", FALSE), Op("notify", TRUE) >>
                /\ UNCHANGED <<pc, token>>
    /\ UNCHANGED <<trace, registered, driver_ok, buf, event_buf, event_queue, i,
                   event_saved, poll_failed, completedLog, returnedLog, retired,
                   resubmitted,
                   qvars>>

\* if let Some(token) = self.event_queue.peek_used() { .. } else { Ok(None) }
PollPeek ==
    /\ pc = "idle"
    /\ LET p == QueuePeekUsed(event_queue)
       IN  /\ call_ops' = << Op("peek_used", p.some) >>
           /\ IF p.some
              THEN /\ token' = p.token
                   /\ pc' = "poll_pop"
                   /\ UNCHANGED last_ret
              ELSE /\ last_ret' = RetNone
                   /\ UNCHANGED <<pc, token>>
    /\ UNCHANGED <<trace, registered, driver_ok, buf, event_buf, event_queue, i,
                   event_saved, poll_failed, completedLog, returnedLog, retired,
                   resubmitted,
                   qvars>>

\* The slip of dropping the `?` on pop_used: its error is ignored.
PollPopUsedIgnoreErr ==
    /\ pc = "poll_pop"
    /\ \E fail \in BOOLEAN :
        LET r == IF fail THEN [ok |-> FALSE, q |-> event_queue]
                 ELSE QueuePopUsed(event_queue, token)
        IN  /\ event_queue' = r.q
            /\ call_ops' = Append(call_ops, Op("pop_used", r.ok))
            /\ retired' = IF r.ok THEN [retired EXCEPT ![token] = @ + 1] ELSE retired
            /\ pc' = "poll_copy"
    /\ UNCHANGED <<trace, registered, driver_ok, buf, event_buf, drvLocals, last_ret,
                   poll_failed, completedLog, returnedLog, resubmitted,
                   qvars>>

\* let _ = self.event_queue.pop_used(token)?;
PollPopUsed ==
    /\ pc = "poll_pop"
    /\ \E fail \in BOOLEAN :
        LET r == IF fail THEN [ok |-> FALSE, q |-> event_queue]
                 ELSE QueuePopUsed(event_queue, token)
        IN  /\ event_queue' = r.q
            /\ call_ops' = Append(call_ops, Op("pop_used", r.ok))
            /\ IF r.ok
               THEN /\ retired' = [retired EXCEPT ![token] = @ + 1]
                    /\ pc' = "poll_copy"
                    /\ UNCHANGED <<token, event_saved, last_ret, poll_failed>>
               ELSE /\ PollErr
                    /\ UNCHANGED retired
    /\ UNCHANGED <<trace, registered, driver_ok, buf, event_buf, i, completedLog,
                   returnedLog, resubmitted,
                   qvars>>

\* The slip of copying a fixed slot instead of the completed one.
PollCopyWrongSlot ==
    /\ pc = "poll_copy"
    /\ event_saved' = event_buf[0]
    /\ call_ops' = Append(call_ops, Op("read_buf", TRUE))
    /\ pc' = "poll_add"
    /\ UNCHANGED <<trace, registered, driver_ok, buf, event_buf, event_queue, i, token,
                   last_ret, poll_failed, completedLog, returnedLog, retired,
                   resubmitted,
                   qvars>>

\* let event_saved = self.event_buf[token as usize];
PollCopy ==
    /\ pc = "poll_copy"
    /\ event_saved' = event_buf[token]
    /\ call_ops' = Append(call_ops, Op("read_buf", TRUE))
    /\ pc' = "poll_add"
    /\ UNCHANGED <<trace, registered, driver_ok, buf, event_buf, event_queue, i, token,
                   last_ret, poll_failed, completedLog, returnedLog, retired,
                   resubmitted,
                   qvars>>

\* The slip of leaving the slot idle instead of re-submitting it.
PollAddSkipped ==
    /\ pc = "poll_add"
    /\ pc' = "poll_notify"
    /\ UNCHANGED <<trace, registered, driver_ok, buf, event_buf, event_queue, drvLocals,
                   ghosts,
                   qvars>>

\* let new_token = self.event_queue.add(..)?; assert_eq!(new_token, token);
PollAdd ==
    /\ pc = "poll_add"
    /\ \E fail \in BOOLEAN :
        LET r == IF fail THEN [ok |-> FALSE, token |-> 0, q |-> event_queue]
                 ELSE QueueAdd(event_queue)
            new_token == r.token
        IN  /\ event_queue' = r.q
            /\ call_ops' = Append(call_ops, Op("add", r.ok))
            /\ IF ~r.ok
               THEN /\ PollErr
                    /\ UNCHANGED resubmitted
               ELSE IF new_token # token
               THEN /\ pc' = "assert_failed"
                    /\ UNCHANGED <<token, event_saved, last_ret, poll_failed, resubmitted>>
               ELSE /\ pc' = "poll_notify"
                    /\ resubmitted' = [resubmitted EXCEPT ![token] = @ + 1]
                    /\ UNCHANGED <<token, event_saved, last_ret, poll_failed>>
    /\ UNCHANGED <<trace, registered, driver_ok, buf, event_buf, i, completedLog,
                   returnedLog, retired,
                   qvars>>

\* The calls of the notification step: should_notify, and notify if it said so.
NotifyOps(sn, ok) ==
    IF sn THEN << Op("should_notify", TRUE), Op("notify", ok) >>
    ELSE << Op("should_notify", FALSE) >>

\* The successful return of pop_pending_event: Ok(Some(record)).
PollSome(t, record) ==
    /\ pc' = "idle"
    /\ last_ret' = RetSome(record)
    /\ returnedLog' = Append(returnedLog, <<t, record>>)
    /\ token' = 0
    /\ event_saved' = 0
    /\ UNCHANGED poll_failed

\* The slip of returning the slot's current contents instead of the copy.
PollNotifyRereads ==
    /\ pc = "poll_notify"
    /\ \E sn \in BOOLEAN, ok \in BOOLEAN :
        /\ call_ops' = call_ops \o NotifyOps(sn, ok)
        /\ IF sn /\ ~ok
           THEN /\ PollErr
                /\ UNCHANGED returnedLog
           ELSE PollSome(token, event_buf[token])
    /\ UNCHANGED <<trace, registered, driver_ok, buf, event_buf, event_queue, i,
                   completedLog, retired, resubmitted,
                   qvars>>

\* The slip of dropping the `?` on notify: its error is ignored.
PollNotifyIgnoreErr ==
    /\ pc = "poll_notify"
    /\ \E sn \in BOOLEAN, ok \in BOOLEAN :
        /\ call_ops' = call_ops \o NotifyOps(sn, ok)
        /\ PollSome(token, event_saved)
    /\ UNCHANGED <<trace, registered, driver_ok, buf, event_buf, event_queue, i,
                   completedLog, retired, resubmitted,
                   qvars>>

\* The slip of ending the handled branch with Ok(None).
PollNotifyDropsRecord ==
    /\ pc = "poll_notify"
    /\ \E sn \in BOOLEAN, ok \in BOOLEAN :
        /\ call_ops' = call_ops \o NotifyOps(sn, ok)
        /\ IF sn /\ ~ok
           THEN /\ PollErr
                /\ UNCHANGED returnedLog
           ELSE /\ pc' = "idle"
                /\ last_ret' = RetNone
                /\ token' = 0
                /\ event_saved' = 0
                /\ UNCHANGED <<poll_failed, returnedLog>>
    /\ UNCHANGED <<trace, registered, driver_ok, buf, event_buf, event_queue, i,
                   completedLog, retired, resubmitted,
                   qvars>>

\* if self.event_queue.should_notify() { self.transport.notify(QUEUE_EVENT)?; }
\* Ok(Some(event_saved))
PollNotify ==
    /\ pc = "poll_notify"
    /\ \E sn \in BOOLEAN, ok \in BOOLEAN :
        /\ call_ops' = call_ops \o NotifyOps(sn, ok)
        /\ IF sn /\ ~ok
           THEN /\ PollErr
                /\ UNCHANGED returnedLog
           ELSE PollSome(token, event_saved)
    /\ UNCHANGED <<trace, registered, driver_ok, buf, event_buf, event_queue, i,
                   completedLog, retired, resubmitted,
                   qvars>>

\* ------------------------------------------------- Drop for VirtIOInput
\* `expect` on a failed queue_unset panics inside drop.  Unwinding then drops
\* the fields, releasing event_buf; a panic=abort build stops with it allocated.
PanicInDrop ==
    /\ pc' = "panicked"
    /\ buf' \in {"live", "freed"}

\* The slip of unsetting the status queue in the place of the event queue.
DropUnsetEventWrongQueue ==
    /\ pc = "idle"
    /\ \E ok \in BOOLEAN :
        /\ trace' = Append(trace, Call("queue_unset", QUEUE_STATUS, ok))
        /\ IF ok
           THEN /\ registered' = [registered EXCEPT ![QUEUE_STATUS] = FALSE]
                /\ pc' = "drop_status"
                /\ UNCHANGED buf
           ELSE /\ PanicInDrop
                /\ UNCHANGED registered
    /\ UNCHANGED <<driver_ok, event_buf, event_queue, drvLocals, ghosts, qvars>>

\* self.transport.queue_unset(QUEUE_EVENT).expect("failed to unset event queue");
DropUnsetEvent ==
    /\ pc = "idle"
    /\ \E ok \in BOOLEAN :
        /\ trace' = Append(trace, Call("queue_unset", QUEUE_EVENT, ok))
        /\ IF ok
           THEN /\ registered' = [registered EXCEPT ![QUEUE_EVENT] = FALSE]
                /\ pc' = "drop_status"
                /\ UNCHANGED buf
           ELSE /\ PanicInDrop
                /\ UNCHANGED registered
    /\ UNCHANGED <<driver_ok, event_buf, event_queue, drvLocals, ghosts, qvars>>

\* self.transport.queue_unset(QUEUE_STATUS).expect("failed to unset status queue");
\* then the fields, event_buf among them, are dropped.
DropUnsetStatus ==
    /\ pc = "drop_status"
    /\ \E ok \in BOOLEAN :
        /\ trace' = Append(trace, Call("queue_unset", QUEUE_STATUS, ok))
        /\ IF ok
           THEN /\ registered' = [registered EXCEPT ![QUEUE_STATUS] = FALSE]
                /\ pc' = "dropped"
                /\ buf' = "freed"
           ELSE /\ PanicInDrop
                /\ UNCHANGED registered
    /\ UNCHANGED <<driver_ok, event_buf, event_queue, drvLocals, ghosts, qvars>>

\* ------------------------------------ VirtIOInput::query_config_select
\* The u8 codes of InputConfigSelect the caller may pass (`select as _`).
Selects == {1, 17}
Subsels == {0, 1}
\* What the device may answer: a size byte, which a device is free to set
\* beyond the block width, and a data block.  The query treats the block as
\* opaque bytes, so two blocks are drawn, whose bytes are non-zero and differ
\* from position to position and from block to block.
Sizes == 0 .. (DataWidth + 1)
Blocks == {[k \in 1 .. DataWidth |-> k], [k \in 1 .. DataWidth |-> DataWidth + k]}
\* Capacities of the caller's out buffer; the buffer comes zero-filled.
Capacities == 0 .. (DataWidth + 1)
Zeros(n) == [k \in 1 .. n |-> 0]

QRetOk(n) == [kind |-> "Ok", val |-> n]
QRetErr == [kind |-> "Err", val |-> 0]
QRetPanic == [kind |-> "Panic", val |-> 0]
QRetPending == [kind |-> "Pending", val |-> 0]

\* A register access with its result.
Access(op, ok) == <<op, ok>>

\* The error return of query_config_select (the `?` operator).
QueryErr ==
    /\ pc' = "idle"
    /\ q_ret' = QRetErr

\* query_config_select(select, subsel, out) is called on a constructed driver.
QueryCall ==
    /\ pc = "idle"
    /\ driver_ok
    /\ \E sel \in Selects, sub \in Subsels, cap \in Capacities :
        /\ q_args' = [select |-> sel, subsel |-> sub]
        /\ out' = Zeros(cap)
    /\ size' = 0
    /\ data' = <<>>
    /\ q_log' = <<>>
    /\ q_ret' = QRetPending
    /\ pc' = "q_select"
    /\ UNCHANGED <<trace, registered, driver_ok, buf, event_buf, event_queue, drvLocals,
                   ghosts, io_region>>

\* The slip of writing the registers in the other order.
QuerySelectWritesSubsel ==
    /\ pc = "q_select"
    /\ \E ok \in BOOLEAN :
        /\ q_log' = Append(q_log, Access("write_subsel", ok))
        /\ IF ok
           THEN /\ io_region' = [io_region EXCEPT !.subsel = q_args.subsel]
                /\ pc' = "q_subsel"
                /\ UNCHANGED q_ret
           ELSE /\ QueryErr
                /\ UNCHANGED io_region
    /\ UNCHANGED <<trace, registered, driver_ok, buf, event_buf, event_queue, drvLocals,
                   ghosts, q_args, out, size, data>>

\* config.select.write(select as _, io_region)?;
QuerySelect ==
    /\ pc = "q_select"
    /\ \E ok \in BOOLEAN :
        /\ q_log' = Append(q_log, Access("write_select", ok))
        /\ IF ok
           THEN /\ io_region' = [io_region EXCEPT !.select = q_args.select]
                /\ pc' = "q_subsel"
                /\ UNCHANGED q_ret
           ELSE /\ QueryErr
                /\ UNCHANGED io_region
    /\ UNCHANGED <<trace, registered, driver_ok, buf, event_buf, event_queue, drvLocals,
                   ghosts, q_args, out, size, data>>

\* config.subsel.write(subsel, io_region)?;  The device latches its answer.
QuerySubsel ==
    /\ pc = "q_subsel"
    /\ \E ok \in BOOLEAN :
        /\ q_log' = Append(q_log, Access("write_subsel", ok))
        /\ IF ok
           THEN /\ \E n \in Sizes, d \in Blocks :
                    io_region' = [io_region EXCEPT !.subsel = q_args.subsel,
                                                   !.size = n, !.data = d]
                /\ pc' = "q_size"
                /\ UNCHANGED q_ret
           ELSE /\ QueryErr
                /\ UNCHANGED io_region
    /\ UNCHANGED <<trace, registered, driver_ok, buf, event_buf, event_queue, drvLocals,
                   ghosts, q_args, out, size, data>>

\* let size = config.size.read(io_region)?;
QuerySize ==
    /\ pc = "q_size"
    /\ \E ok \in BOOLEAN :
        /\ q_log' = Append(q_log, Access("read_size", ok))
        /\ IF ok
           THEN /\ size' = io_region.size
                /\ pc' = "q_data"
                /\ UNCHANGED q_ret
           ELSE /\ QueryErr
                /\ UNCHANGED size
    /\ UNCHANGED <<trace, registered, driver_ok, buf, event_buf, event_queue, drvLocals,
                   ghosts, q_args, out, data, io_region>>

\* let data = config.data.read(io_region)?;
QueryData ==
    /\ pc = "q_data"
    /\ \E ok \in BOOLEAN :
        /\ q_log' = Append(q_log, Access("read_data", ok))
        /\ IF ok
           THEN /\ data' = io_region.data
                /\ pc' = "q_copy"
                /\ UNCHANGED q_ret
           ELSE /\ QueryErr
                /\ UNCHANGED data
    /\ UNCHANGED <<trace, registered, driver_ok, buf, event_buf, event_queue, drvLocals,
                   ghosts, q_args, out, size, io_region>>

\* The slip of filling all of out from the data block.
QueryCopyWholeBlock ==
    /\ pc = "q_copy"
    /\ IF size > Len(out) \/ size > Len(data)
       THEN /\ pc' = "query_panicked"
            /\ q_ret' = QRetPanic
            /\ UNCHANGED out
       ELSE /\ out' = [k \in 1 .. Len(out) |-> IF k <= Len(data) THEN data[k] ELSE out[k]]
            /\ q_ret' = QRetOk(size)
            /\ pc' = "idle"
    /\ UNCHANGED <<trace, registered, driver_ok, buf, event_buf, event_queue, drvLocals,
                   ghosts, q_args, size, data, io_region, q_log>>

\* The slip of truncating to the capacity of out instead of panicking.
QueryCopyTruncating ==
    /\ pc = "q_copy"
    /\ IF size > Len(data)
       THEN /\ pc' = "query_panicked"
            /\ q_ret' = QRetPanic
            /\ UNCHANGED out
       ELSE /\ out' = [k \in 1 .. Len(out) |-> IF k <= size THEN data[k] ELSE out[k]]
            /\ q_ret' = QRetOk(size)
            /\ pc' = "idle"
    /\ UNCHANGED <<trace, registered, driver_ok, buf, event_buf, event_queue, drvLocals,
                   ghosts, q_args, size, data, io_region, q_log>>

\* out[..size as usize].copy_from_slice(&data[..size as usize]); Ok(size)
\* Either slice panics when size exceeds its length, before a byte is copied.
QueryCopy ==
    /\ pc = "q_copy"
    /\ IF size > Len(out) \/ size > Len(data)
       THEN /\ pc' = "query_panicked"
            /\ q_ret' = QRetPanic
            /\ UNCHANGED out
       ELSE /\ out' = [k \in 1 .. Len(out) |-> IF k <= size THEN data[k] ELSE out[k]]
            /\ q_ret' = QRetOk(size)
            /\ pc' = "idle"
    /\ UNCHANGED <<trace, registered, driver_ok, buf, event_buf, event_queue, drvLocals,
                   ghosts, q_args, size, data, io_region, q_log>>

Next ==
    \/ NewBeginInit
    \/ NewQueueEvent
    \/ NewQueueStatus
    \/ NewPrimeAdd
    \/ NewNotify
    \/ NewFinishInit
    \/ DeviceComplete
    \/ PollPeek
    \/ PollPopUsed
    \/ PollCopy
    \/ PollAdd
    \/ PollNotify
    \/ DropUnsetEvent
    \/ DropUnsetStatus

Spec == Init /\ [][Next]_vars

\* A consumer that keeps polling: a started or possible step of
\* pop_pending_event is eventually taken.
PollStep == PollPeek \/ PollPopUsed \/ PollCopy \/ PollAdd \/ PollNotify
SpecDrain == Init /\ [][Next]_vars /\ WF_vars(PollStep)

\* The calls a successful `new` has made, should_notify having reported sn.
NewTrace(sn) ==
    << Call("begin_init", 0, TRUE), Call("queue_set", QUEUE_EVENT, TRUE),
       Call("queue_set", QUEUE_STATUS, TRUE) >>
    \o [k \in 1 .. QUEUE_SIZE |-> Call("add", k - 1, TRUE)]
    \o (IF sn THEN << Call("should_notify", QUEUE_EVENT, TRUE),
                      Call("notify", QUEUE_EVENT, TRUE) >>
        ELSE << Call("should_notify", QUEUE_EVENT, FALSE) >>)
    \o << Call("finish_init", 0, TRUE) >>

\* The driver as `new` returns it: both queues registered, every slot posted
\* (here after a priming that needed no notify).
Constructed ==
    /\ pc = "idle"
    /\ trace = NewTrace(FALSE)
    /\ registered = [q \in {QUEUE_EVENT, QUEUE_STATUS} |-> TRUE]
    /\ driver_ok = TRUE
    /\ buf = "live"
    /\ event_buf = [s \in Slots |-> 0]
    /\ event_queue = [free |-> <<>>, avail |-> Slots, used |-> <<>>]
    /\ i = QUEUE_SIZE
    /\ token = 0
    /\ event_saved = 0
    /\ last_ret = [kind |-> "NotCalled", val |-> 0]
    /\ poll_failed = FALSE
    /\ completedLog = <<>>
    /\ returnedLog = <<>>
    /\ retired = [s \in Slots |-> 0]
    /\ resubmitted = [s \in Slots |-> 0]
    /\ call_ops = <<>>
    /\ NoQuery

\* Config queries on a constructed driver, while the device goes on completing.
NextQuery ==
    \/ QueryCall
    \/ QuerySelect
    \/ QuerySubsel
    \/ QuerySize
    \/ QueryData
    \/ QueryCopy
    \/ DeviceComplete

SpecQuery == Constructed /\ [][NextQuery]_vars

\* ------------------------------------------------- auxiliary operators
IsPrefix(s, t) == Len(s) <= Len(t) /\ \A k \in 1 .. Len(s) : s[k] = t[k]
Range(s) == {s[k] : k \in 1 .. Len(s)}
\* Number of entries of a <<slot, value>> log that are about slot t.
CountSlot(log, t) == Cardinality({k \in 1 .. Len(log) : log[k][1] = t})
\* Indices of the calls of `op` in the trace.
CallsOf(op) == {k \in 1 .. Len(trace) : trace[k][1] = op}
\* The handshake steps of the trace, as <<operation, argument>>.
IsStep(c) == c[1] \in {"begin_init", "queue_set", "add", "finish_init"}
Steps == LET s == SelectSeq(trace, IsStep) IN [k \in 1 .. Len(s) |-> <<s[k][1], s[k][2]>>]
\* The handshake in full: begin_init, the two queues, the N slots, finish_init.
Handshake ==
    << <<"begin_init", 0>>, <<"queue_set", QUEUE_EVENT>>, <<"queue_set", QUEUE_STATUS>> >>
    \o [k \in 1 .. QUEUE_SIZE |-> <<"add", k - 1>>]
    \o << <<"finish_init", 0>> >>
\* The queue_unset calls of the trace, in order.
IsUnset(c) == c[1] = "queue_unset"
Unsets == SelectSeq(trace, IsUnset)
\* A fallible call of the construction that returned an error.
IsFailedNewCall(c) ==
    c[1] \in {"begin_init", "queue_set", "add", "notify", "finish_init"} /\ ~c[3]

\* ---------------------------------------------------------------- claims

\* C1: once the driver is constructed, and as long as no pop_pending_event
\* call has failed, exactly QUEUE_SIZE slots are posted to the device or
\* completed and not yet retired, except between pop_used and the following
\* add of one call, where exactly one slot is un-posted.
RingCapacityInvariant ==
    (driver_ok /\ ~poll_failed) =>
        IF pc \in {"poll_copy", "poll_add"}
        THEN Posted(event_queue) = QUEUE_SIZE - 1
        ELSE Posted(event_queue) = QUEUE_SIZE

\* C1 witness: two records were returned by successful calls, completions are
\* pending, and the driver is between calls with the ring full.
RingCapacityWitness ==
    /\ pc = "idle" /\ ~poll_failed
    /\ Len(returnedLog) >= 2
    /\ event_queue.used # <<>>
    /\ Posted(event_queue) = QUEUE_SIZE

\* C2: the assertions token == i and new_token == token never fail: while
\* priming, the next submission returns token i; when a completed slot is
\* about to be re-submitted, the next submission returns its token.
TokenStability ==
    /\ pc # "assert_failed"
    /\ (pc = "new_prime" => event_queue.free # <<>> /\ Head(event_queue.free) = i)
    /\ (pc = "poll_add" => event_queue.free # <<>> /\ Head(event_queue.free) = token)

\* C2 witness: the last slot completed first, and it and slot 0 have both been
\* re-submitted under their own tokens.
TokenStabilityWitness ==
    /\ completedLog # <<>>
    /\ completedLog[1][1] = QUEUE_SIZE - 1
    /\ resubmitted[QUEUE_SIZE - 1] >= 1
    /\ resubmitted[0] >= 1

\* C3: for every slot t, the records returned for t are no more than the
\* re-submissions of t, which are no more than the retirements of t, which are
\* no more than the device's completions of t; and t is retired at most once
\* more than it was re-submitted.
NoDoubleDelivery ==
    \A t \in Slots :
        /\ CountSlot(returnedLog, t) <= resubmitted[t]
        /\ resubmitted[t] <= retired[t]
        /\ retired[t] <= resubmitted[t] + 1
        /\ retired[t] <= CountSlot(completedLog, t)

\* C3 witness: a slot completed twice and was returned twice, and the poll
\* after that found nothing.
NoDoubleDeliveryWitness ==
    /\ \E t \in Slots : CountSlot(completedLog, t) = 2 /\ CountSlot(returnedLog, t) = 2
    /\ last_ret.kind = "None"

\* C4: as long as no pop_pending_event call has failed, the records returned
\* are, in order, the records the device wrote, in the order it completed the
\* slots; and every slot a record was returned for is posted again under its
\* token (or completed again, or being recycled again).
ArbitraryCompletionOrder ==
    ~poll_failed =>
        /\ IsPrefix(returnedLog, completedLog)
        /\ \A k \in 1 .. Len(returnedLog) :
            LET t == returnedLog[k][1]
            IN  /\ resubmitted[t] >= CountSlot(returnedLog, t)
                /\ \/ t \in event_queue.avail
                   \/ t \in Range(event_queue.used)
                   \/ (pc \in {"poll_copy", "poll_add"} /\ token = t)

\* C4 witness: the device completed the last slot, then slot 0, then another,
\* and three calls returned these three records.
ArbitraryCompletionOrderWitness ==
    /\ ~poll_failed
    /\ Len(returnedLog) = 3
    /\ returnedLog = completedLog
    /\ completedLog[1][1] = QUEUE_SIZE - 1
    /\ completedLog[2][1] = 0
    /\ completedLog[3][1] = 1

\* C5: whenever event_buf has been released, the event queue is not
\* registered with the transport.
NoFreeWhileRegistered == buf = "freed" => ~registered[QUEUE_EVENT]

\* C6: when a drop has completed, queue_unset was called exactly twice: first
\* for the event queue, then for the status queue; and when only its first
\* step is done, exactly once, for the event queue.
TeardownOrder ==
    /\ (pc = "dropped" =>
            Unsets = << Call("queue_unset", QUEUE_EVENT, TRUE),
                        Call("queue_unset", QUEUE_STATUS, TRUE) >>)
    /\ (pc = "drop_status" => Unsets = << Call("queue_unset", QUEUE_EVENT, TRUE) >>)

\* C6 witness: a driver that never received a completion was dropped.
TeardownOrderWitness == pc = "dropped" /\ completedLog = <<>>

\* C7: when the teardown has failed, queue_unset has been invoked for the
\* status queue.
BothUnsetsAttempted ==
    pc = "panicked" => \E k \in CallsOf("queue_unset") : trace[k][2] = QUEUE_STATUS

\* C8: the handshake steps seen so far are an initial part of begin_init,
\* register queue 0, register queue 1, submit slots 0..N-1, finish_init;
\* finish_init is called only with both queues registered and all N slots
\* posted; a constructed driver has seen the whole handshake.
HandshakeOrder ==
    /\ IsPrefix(Steps, Handshake)
    /\ Cardinality(CallsOf("queue_set")) <= 2
    /\ (pc = "new_finish" =>
            /\ registered[QUEUE_EVENT] /\ registered[QUEUE_STATUS]
            /\ event_queue.avail = Slots)
    /\ (driver_ok => Steps = Handshake /\ \A k \in 1 .. Len(trace) : ~IsFailedNewCall(trace[k]))

\* C8 witness: the construction has succeeded.
HandshakeOrderWitness == pc = "idle" /\ driver_ok /\ Steps = Handshake

\* C9: a failed call of the construction is the last call the construction
\* makes: new has returned the error, driver-ready was not signalled and no
\* driver instance exists; and new returns an error only so.
ConstructionFailureTerminal ==
    /\ \A k \in 1 .. Len(trace) :
        IsFailedNewCall(trace[k]) => k = Len(trace) /\ pc = "new_err" /\ ~driver_ok
    /\ (pc = "new_err" => trace # <<>> /\ IsFailedNewCall(trace[Len(trace)]))

\* C9 witness: the priming notification failed and new returned the error.
ConstructionFailureWitness ==
    /\ pc = "new_err"
    /\ trace[Len(trace)] = Call("notify", QUEUE_EVENT, FALSE)

\* C10: should_notify is consulted only after all N slots were submitted;
\* a notify follows it at once if it reported TRUE and none is sent if it
\* reported FALSE; no other notify is sent by the construction.
PrimingNotifyConditional ==
    /\ \A k \in CallsOf("should_notify") :
        /\ k = QUEUE_SIZE + 4
        /\ \A s \in Slots : trace[4 + s] = Call("add", s, TRUE)
        /\ (trace[k][3] => Len(trace) > k /\ trace[k + 1][1] = "notify")
        /\ (~trace[k][3] /\ Len(trace) > k => trace[k + 1][1] # "notify")
    /\ \A k \in CallsOf("notify") :
        k > 1 /\ trace[k - 1] = Call("should_notify", QUEUE_EVENT, TRUE)
    /\ Cardinality(CallsOf("notify")) <= 1

\* C10 witness: should_notify reported FALSE, no notify was sent and the
\* construction succeeded.
PrimingNotifyWitness ==
    /\ driver_ok
    /\ trace[QUEUE_SIZE + 4] = Call("should_notify", QUEUE_EVENT, FALSE)
    /\ CallsOf("notify") = {}

\* ------------------------------------- auxiliary operators, second part
\* Indices of the calls of `op` made by the current pop_pending_event.
OpsOf(op) == {k \in 1 .. Len(call_ops) : call_ops[k][1] = op}
\* Indices of the device's completions of slot t, and the first n of them.
CompletionsOf(t) == {k \in 1 .. Len(completedLog) : completedLog[k][1] = t}
FirstCompletionsOf(t, n) ==
    {k \in CompletionsOf(t) : Cardinality({j \in CompletionsOf(t) : j <= k}) <= n}
\* The records the device wrote for the completions of t retired so far.
RetiredRecords(t) == {completedLog[k] : k \in FirstCompletionsOf(t, retired[t])}
\* The record of the latest retired completion of t.
LastRetiredRecord(t) ==
    LET ks == FirstCompletionsOf(t, retired[t])
    IN  completedLog[CHOOSE k \in ks : \A j \in ks : j <= k]
PollPcs == {"idle", "poll_pop", "poll_copy", "poll_add", "poll_notify"}
DropPcs == {"drop_status", "dropped", "panicked"}

\* C11: a pop_pending_event call that finds no completed slot returns
\* Ok(None) in that one step: it calls peek_used and nothing else, and leaves
\* the ring, the buffer, the transport's view and every count unchanged.
PollOnEmptyRing ==
    [][ (/\ pc = "idle"
         /\ event_queue.used = <<>>
         /\ (call_ops' # call_ops \/ last_ret' # last_ret))
        => /\ pc' = "idle"
           /\ last_ret' = RetNone
           /\ call_ops' = << Op("peek_used", FALSE) >>
           /\ UNCHANGED <<event_queue, event_buf, trace, registered, driver_ok, buf,
                          drvLocals, poll_failed, completedLog, returnedLog, retired,
                          resubmitted>> ]_vars

\* C11 witness: after a record was delivered, a call found the ring without
\* completions and returned Ok(None).
PollOnEmptyRingWitness ==
    /\ pc = "idle"
    /\ last_ret = RetNone
    /\ call_ops = << Op("peek_used", FALSE) >>
    /\ event_queue.used = <<>>
    /\ Len(returnedLog) >= 1

\* C14: whenever the driver is between calls, all QUEUE_SIZE slots are posted
\* to the device or completed and awaiting retirement, whatever the calls so
\* far returned.
AllPostedOnEveryReturn ==
    (driver_ok /\ pc = "idle") => Posted(event_queue) = QUEUE_SIZE

\* C15: every slot is in exactly one place (free, posted, or completed), once;
\* the driver reads a slot only when it is retired and not yet re-submitted;
\* the copy it holds, and every record it returned, is the record the device
\* wrote for a retired completion of that slot.
SlotHandOff ==
    /\ registered[QUEUE_EVENT] =>
        /\ \A t \in Slots :
            Cardinality({k \in 1 .. Len(event_queue.free) : event_queue.free[k] = t})
            + Cardinality({k \in 1 .. Len(event_queue.used) : event_queue.used[k] = t})
            + (IF t \in event_queue.avail THEN 1 ELSE 0) = 1
    /\ (pc = "poll_copy" =>
            /\ token \notin event_queue.avail
            /\ token \notin Range(event_queue.used)
            /\ retired[token] = resubmitted[token] + 1
            /\ retired[token] <= CountSlot(completedLog, token)
            /\ <<token, event_buf[token]>> = LastRetiredRecord(token))
    /\ (pc \in {"poll_add", "poll_notify"} =>
            <<token, event_saved>> = LastRetiredRecord(token))
    /\ \A k \in 1 .. Len(returnedLog) :
            returnedLog[k] \in RetiredRecords(returnedLog[k][1])

\* C15 witness: the device has written again into the re-posted slot while
\* the call still holds the copy of the earlier record.
SlotHandOffWitness ==
    /\ pc = "poll_notify"
    /\ event_buf[token] # event_saved
    /\ token \in Range(event_queue.used)

\* C16: a pop_pending_event call sends at most one notify; a notify is sent
\* only right after should_notify returned true and after the slot was
\* re-submitted, and always then; a failed notify ends the call with Err.
SteadyStateNotify ==
    /\ Cardinality(OpsOf("notify")) <= 1
    /\ \A k \in OpsOf("notify") :
        /\ k > 1
        /\ call_ops[k - 1] = Op("should_notify", TRUE)
        /\ \E j \in 1 .. (k - 1) : call_ops[j] = Op("add", TRUE)
        /\ k = Len(call_ops)
        /\ pc \notin {"poll_pop", "poll_copy", "poll_add", "poll_notify"}
        /\ last_ret.kind = (IF call_ops[k][2] THEN "Some" ELSE "Err")
    /\ \A k \in OpsOf("should_notify") :
        IF call_ops[k][2]
        THEN k < Len(call_ops) /\ call_ops[k + 1][1] = "notify"
        ELSE k = Len(call_ops)

\* C16 witness: the notify of a call failed and the call returned Err.
SteadyStateNotifyWitness ==
    /\ pc = "idle"
    /\ last_ret = RetErr
    /\ call_ops # <<>>
    /\ call_ops[Len(call_ops)] = Op("notify", FALSE)

\* C18 (as claimed): once the construction is past its notification step, a
\* notify was sent.
PrimingNotifyUnconditional ==
    CallsOf("should_notify") # {} => CallsOf("notify") # {}

\* C18 (amended): the construction sends a notify after priming exactly when
\* should_notify reported true.
PrimingNotifyOnlyIfAsked ==
    /\ (CallsOf("should_notify") = {} => CallsOf("notify") = {})
    /\ \A k \in CallsOf("should_notify") : trace[k][3] <=> (CallsOf("notify") # {})

\* C18 witness: should_notify reported false and the construction went on to
\* finish_init without a notify.
PrimingNotifyOnlyIfAskedWitness ==
    /\ pc = "new_finish"
    /\ trace[Len(trace)] = Call("should_notify", QUEUE_EVENT, FALSE)

\* C19: while the driver is alive, every record the device completed has been
\* returned or can still be returned: its slot awaits retirement with the
\* record in it, or the current call holds it.
NoCompletionLost ==
    pc \in PollPcs =>
        \A k \in 1 .. Len(completedLog) :
            LET t == completedLog[k][1]
                v == completedLog[k][2]
            IN  \/ completedLog[k] \in Range(returnedLog)
                \/ (t \in Range(event_queue.used) /\ event_buf[t] = v)
                \/ (pc = "poll_copy" /\ token = t /\ event_buf[t] = v)
                \/ (pc \in {"poll_add", "poll_notify"} /\ token = t /\ event_saved = v)

\* C20: with no failed call, whenever the driver is between calls and no
\* completion is pending, every completed record has been returned, in order,
\* and all N slots are posted; and a consumer that keeps polling reaches,
\* again and again, the state where Ok(None) was returned with everything
\* delivered and re-posted (unless a call fails or the driver is dropped).
Drained ==
    /\ pc = "idle"
    /\ event_queue.used = <<>>
    /\ last_ret = RetNone
    /\ returnedLog = completedLog
    /\ event_queue.avail = Slots
DrainLiveness ==
    /\ [](driver_ok /\ ~poll_failed /\ pc = "idle" /\ event_queue.used = <<>>
            => returnedLog = completedLog /\ event_queue.avail = Slots)
    /\ []<>(~driver_ok \/ poll_failed \/ pc \in DropPcs \/ Drained)

\* C20 witness: the device completed MaxCompletions slots, all were returned,
\* and the next call returned Ok(None) with every slot posted.
DrainLivenessWitness ==
    /\ Drained
    /\ ~poll_failed
    /\ Len(completedLog) >= 3

\* --------------------------------------- auxiliary operators, the query
QueryPcs == {"q_select", "q_subsel", "q_size", "q_data", "q_copy"}
\* The register accesses of query_config_select, in order.
Protocol == <<"write_select", "write_subsel", "read_size", "read_data">>
QueryAccesses == [k \in 1 .. Len(q_log) |-> q_log[k][1]]
\* All four register accesses succeeded and the copy step is over.
QueryAnswered ==
    /\ Len(q_log) = 4
    /\ \A k \in 1 .. 4 : q_log[k][2]
    /\ pc \notin QueryPcs

\* C12: a query that returns Ok returns the size the device answered, has
\* copied exactly that many bytes of the device's data block to the front of
\* out and left the rest of out as it was; and every answered query whose
\* size fits the data block and out does return Ok.
ConfigRoundTrip ==
    /\ (q_ret.kind = "Ok" =>
            /\ q_ret.val = io_region.size
            /\ io_region.size <= Len(out)
            /\ \A k \in 1 .. Len(out) :
                out[k] = IF k <= io_region.size THEN io_region.data[k] ELSE 0)
    /\ (QueryAnswered /\ io_region.size <= DataWidth /\ io_region.size <= Len(out)
            => q_ret.kind = "Ok")

\* C12 witness: a query returned a non-empty answer into a larger buffer.
ConfigRoundTripWitness ==
    /\ q_ret.kind = "Ok"
    /\ q_ret.val >= 1
    /\ Len(out) > q_ret.val

\* C13: an answered query whose size exceeds the capacity of out has
\* panicked, with out untouched; it returned no size.
UndersizedOutPanics ==
    (QueryAnswered /\ io_region.size > Len(out)) =>
        /\ pc = "query_panicked"
        /\ q_ret = QRetPanic
        /\ out = Zeros(Len(out))

\* C13 witness: the device answered a size that fits the data block but not
\* the caller's non-empty buffer, and the query panicked.
UndersizedOutWitness ==
    /\ q_ret = QRetPanic
    /\ Len(out) >= 1
    /\ io_region.size > Len(out)
    /\ io_region.size <= DataWidth

\* C17: the register accesses of a query are an initial part of write select,
\* write subsel, read size, read data, each write carrying the caller's
\* value; a failed access is the last one, the query has returned Err and
\* out is untouched; and no step of a query changes the rings, the event
\* buffer or the registrations.
QueryRegisterProtocol ==
    /\ [](/\ IsPrefix(QueryAccesses, Protocol)
          /\ (Len(q_log) >= 1 /\ q_log[1][2] /\ pc \in QueryPcs
                => io_region.select = q_args.select)
          /\ (Len(q_log) >= 2 /\ q_log[2][2] => io_region.subsel = q_args.subsel)
          /\ \A k \in 1 .. Len(q_log) :
                ~q_log[k][2] =>
                    /\ k = Len(q_log)
                    /\ pc = "idle"
                    /\ q_ret = QRetErr
                    /\ out = Zeros(Len(out)))
    /\ [][ (pc' # pc \/ q_log' # q_log \/ q_ret' # q_ret \/ out' # out)
            => UNCHANGED <<event_queue, event_buf, registered, driver_ok, buf, trace,
                           drvLocals, ghosts>> ]_vars

\* C17 witness: reading the size register failed while a completion was
\* pending in the ring, and the query returned Err.
QueryRegisterProtocolWitness ==
    /\ pc = "idle"
    /\ q_ret = QRetErr
    /\ Len(q_log) = 3
    /\ event_queue.used # <<>>
====
